---- MODULE Spec2Model ----
(***************************************************************************)
(* Model of the Aiface attendance server (src/server.js): the command      *)
(* router of POST /api, its four handlers (reg, sendlog, checklive,        *)
(* senduser) and the JSON record store (readJsonSafe / writeJsonSafe) the  *)
(* handlers load and save the devices, logs and users collections with.    *)
(*                                                                         *)
(* Encoding of JavaScript values.  A string is a sequence of chunks (TLA+  *)
(* strings); where the code looks inside a string (cmd, temperature) the   *)
(* chunks are single characters.  A number is written as its ToString      *)
(* form, so String(v) and parseFloat(v) act on the same sequence.  null    *)
(* and undefined are the two sentinels below, which no input string        *)
(* equals.  An object is a record; a field that is absent is not in its    *)
(* DOMAIN.  Timestamps (ISO strings in the code) are readings of a logical *)
(* clock that advances with every request delivered.                       *)
(***************************************************************************)
EXTENDS Naturals, Sequences, FiniteSets

(* ------------------------------------------------------------------ *)
(* Bounds                                                             *)
(* ------------------------------------------------------------------ *)

\* Requests that may be in flight at once (overlapping specification).
MaxSlots == 2

\* Requests delivered to the router in one behaviour.
MaxRequests == 3

\* The requests delivered in a run of SpecLive.
MaxLiveRequests == 2

(* ------------------------------------------------------------------ *)
(* JavaScript values and operators                                    *)
(* ------------------------------------------------------------------ *)

Null == <<"<null>">>

Undefined == <<"<undefined>">>

\* obj.f
Get(obj, f) == IF f \in DOMAIN obj THEN obj[f] ELSE Undefined

\* !v, for the values of the model (null, undefined, "")
Falsy(v) == v \in {Null, Undefined, <<>>}

Nullish(v) == v \in {Null, Undefined}

\* a || b
Or(a, b) == IF Falsy(a) THEN b ELSE a

\* a ?? b
Coalesce(a, b) == IF Nullish(a) THEN b ELSE a

\* String(v)
StringOf(v) ==
  IF v = Null THEN <<"n", "u", "l", "l">>
  ELSE IF v = Undefined THEN <<"u", "n", "d", "e", "f", "i", "n", "e", "d">>
  ELSE v

\* { ...a, ...b }
Spread(a, b) ==
  [f \in (DOMAIN a) \cup (DOMAIN b) |-> IF f \in DOMAIN b THEN b[f] ELSE a[f]]

WhiteSpace == {" ", "\t", "\n"}

RECURSIVE TrimStart(_)
TrimStart(s) ==
  IF s # <<>> /\ Head(s) \in WhiteSpace THEN TrimStart(Tail(s)) ELSE s

RECURSIVE TrimEnd(_)
TrimEnd(s) ==
  IF s # <<>> /\ s[Len(s)] \in WhiteSpace
  THEN TrimEnd(SubSeq(s, 1, Len(s) - 1))
  ELSE s

\* s.trim()
Trim(s) == TrimEnd(TrimStart(s))

UpperCase ==
  <<"A", "B", "C", "D", "E", "F", "G", "H", "I", "J", "K", "L", "M",
    "N", "O", "P", "Q", "R", "S", "T", "U", "V", "W", "X", "Y", "Z">>

LowerCase ==
  <<"a", "b", "c", "d", "e", "f", "g", "h", "i", "j", "k", "l", "m",
    "n", "o", "p", "q", "r", "s", "t", "u", "v", "w", "x", "y", "z">>

LowerChar(c) ==
  IF \E i \in 1..Len(UpperCase) : UpperCase[i] = c
  THEN LowerCase[CHOOSE i \in 1..Len(UpperCase) : UpperCase[i] = c]
  ELSE c

\* s.toLowerCase()
ToLowerCase(s) == [i \in 1..Len(s) |-> LowerChar(s[i])]

Digits == <<"0", "1", "2", "3", "4", "5", "6", "7", "8", "9">>

IsDigit(c) == \E i \in 1..Len(Digits) : Digits[i] = c

DigitValue(c) == (CHOOSE i \in 1..Len(Digits) : Digits[i] = c) - 1

\* The longest prefix of s made of digits.
RECURSIVE DigitPrefix(_)
DigitPrefix(s) ==
  IF s # <<>> /\ IsDigit(Head(s))
  THEN <<Head(s)>> \o DigitPrefix(Tail(s))
  ELSE <<>>

RECURSIVE DigitsValue(_)
DigitsValue(ds) ==
  IF ds = <<>> THEN 0
  ELSE 10 * DigitsValue(SubSeq(ds, 1, Len(ds) - 1)) + DigitValue(ds[Len(ds)])

Drop(s, n) == SubSeq(s, n + 1, Len(s))

\* The longest decimal literal that prefixes s; NaN when there is none.  The
\* value is kept as sign, integer part and fraction digits (no exponent or
\* Infinity in the inputs).
ParseDecimal(s) ==
  LET sign == IF s # <<>> /\ Head(s) \in {"+", "-"} THEN Head(s) ELSE "+"
      body == IF s # <<>> /\ Head(s) \in {"+", "-"} THEN Tail(s) ELSE s
      int  == DigitPrefix(body)
      rest == Drop(body, Len(int))
      frac == IF rest # <<>> /\ Head(rest) = "."
              THEN DigitPrefix(Tail(rest))
              ELSE <<>>
  IN  IF int = <<>> /\ frac = <<>>
      THEN [nan |-> TRUE, neg |-> FALSE, int |-> 0, frac |-> <<>>]
      ELSE [nan |-> FALSE, neg |-> (sign = "-"),
            int |-> DigitsValue(int), frac |-> frac]

\* parseFloat(v): ParseDecimal of String(v) after its leading white space
\* (s ranges over the one string, so that it is computed once).
ParseFloat(v) ==
  CHOOSE x \in {ParseDecimal(s) : s \in {TrimStart(StringOf(v))}} : TRUE

\* isNaN(x) on a parseFloat result
IsNaN(x) == x.nan

\* The temperature (degrees) from which access is denied.
FeverThreshold == 38


\* GeFever with > for >=.
GtFever(x) ==
  /\ ~x.nan
  /\ ~x.neg
  /\ x.int > FeverThreshold

\* x >= 38.0 on a parseFloat result (NaN >= 38.0 is false)
GeFever(x) ==
  /\ ~x.nan
  /\ ~x.neg
  /\ x.int >= FeverThreshold

\* devices.findIndex((d) => d.SN === sn): the first index whose record has
\* that SN, 0 when there is none (findIndex's -1: indexes start at 1).
FindIndexBySN(devices, sn) ==
  IF \E i \in 1..Len(devices) : devices[i].SN = sn
  THEN CHOOSE i \in 1..Len(devices) :
         devices[i].SN = sn /\ \A j \in 1..(i - 1) : devices[j].SN # sn
  ELSE 0

\* usersFile.findIndex((x) => String(x.id) === String(uid))
FindIndexById(usersFile, uid) ==
  IF \E i \in 1..Len(usersFile) : StringOf(usersFile[i].id) = StringOf(uid)
  THEN CHOOSE i \in 1..Len(usersFile) :
         /\ StringOf(usersFile[i].id) = StringOf(uid)
         /\ \A j \in 1..(i - 1) : StringOf(usersFile[j].id) # StringOf(uid)
  ELSE 0

(* ------------------------------------------------------------------ *)
(* Payloads.  An array element or a container that is not an object   *)
(* (a number, a string, null) is written [primitive |-> v].  A        *)
(* container field (logs, user, ...) is [isArray, items]: the array's *)
(* elements, or the one value the field holds.                        *)
(* ------------------------------------------------------------------ *)

IsPrimitive(e) == "primitive" \in DOMAIN e

Primitive(v) == [primitive |-> v]

ArrayOf(items) == [isArray |-> TRUE, items |-> items]

Single(e) == [isArray |-> FALSE, items |-> <<e>>]

\* reqBody.f for a container field
GetContainer(obj, f) ==
  IF f \in DOMAIN obj THEN obj[f] ELSE Single(Primitive(Undefined))

NullContainer == Single(Primitive(Null))

ContainerFalsy(c) ==
  /\ ~c.isArray
  /\ IsPrimitive(c.items[1])
  /\ Falsy(c.items[1].primitive)

\* a || b for container fields
OrContainer(a, b) == IF ContainerFalsy(a) THEN b ELSE a

\* Array.isArray(c) ? c : [c]
ToArray(c) == c.items

REG == <<"r", "e", "g">>

SENDLOG == <<"s", "e", "n", "d", "l", "o", "g">>

CHECKLIVE == <<"c", "h", "e", "c", "k", "l", "i", "v", "e">>

SENDUSER == <<"s", "e", "n", "d", "u", "s", "e", "r">>

Commands == {REG, SENDLOG, CHECKLIVE, SENDUSER}

RegNoSN == [cmd |-> REG, Model |-> <<"X100">>]

RegA ==
  [cmd |-> REG, SN |-> <<"A">>, Model |-> <<"X100">>, ip |-> <<"10.0.0.1">>]

RegABare == [cmd |-> REG, SN |-> <<"A">>]

RegB ==
  [cmd |-> <<" ", "R", "e", "g", " ">>, SN |-> <<"B">>, model |-> <<"X200">>,
   Capacities |-> <<"500">>]

RegBodies == {RegNoSN, RegA, RegABare, RegB}

CheckLiveA == [cmd |-> CHECKLIVE, SN |-> <<"A">>]

CheckLiveB == [cmd |-> CHECKLIVE, SN |-> <<"B">>, battery |-> <<"80">>]

CheckLiveNoSN == [cmd |-> CHECKLIVE]

CheckLiveBodies == {CheckLiveA, CheckLiveB, CheckLiveNoSN}

Log39 == [enrollid |-> <<"7">>, timestamp |-> <<"T1">>, temp |-> <<"3", "9">>]

LogNoTimestamp == [enrollid |-> <<"8">>, temp |-> <<"3", "6">>]

Log365 ==
  [enrollid |-> <<"9">>, timestamp |-> <<"T2">>,
   temperature |-> <<"3", "6", ".", "5">>, verify_mode |-> <<"1">>]

Log38 ==
  [enrollid |-> <<"7">>, timestamp |-> <<"T3">>, temp |-> <<"3", "8", ".", "0">>]

LogHot == [enrollid |-> <<"5">>, timestamp |-> <<"T4">>, temp |-> <<"h", "o", "t">>]

LogNullTemp ==
  [enrollid |-> <<"6">>, timestamp |-> <<"T5">>, temp |-> Null,
   temperature |-> <<"3", "7", ".", "9">>]

LogNoTemp == [enrollid |-> Null, timestamp |-> <<"T6">>]

SendLogNoContainer == [cmd |-> SENDLOG, SN |-> <<"A">>]

SendLogEmpty == [cmd |-> SENDLOG, logs |-> ArrayOf(<<>>)]

SendLogMixed ==
  [cmd |-> SENDLOG, SN |-> <<"A">>,
   logs |-> ArrayOf(<<Log39, LogNoTimestamp, Log365>>)]

SendLogSingle == [cmd |-> SENDLOG, log |-> Single(Log38)]

SendLogData ==
  [cmd |-> SENDLOG, logs |-> NullContainer,
   data |-> ArrayOf(<<LogNullTemp, LogHot, LogNoTemp>>)]

SendLogPrimitive ==
  [cmd |-> SENDLOG, logs |-> ArrayOf(<<Log39, Primitive(<<"5">>)>>)]

SendLogBodies ==
  {SendLogNoContainer, SendLogEmpty, SendLogMixed, SendLogSingle, SendLogData,
   SendLogPrimitive}

SendUserNoPayload == [cmd |-> SENDUSER, SN |-> <<"A">>]

SendUserSingle ==
  [cmd |-> SENDUSER, SN |-> <<"A">>,
   user |-> Single([id |-> <<"1001">>, name |-> <<"Alice">>])]

SendUserBatch ==
  [cmd |-> SENDUSER,
   users |-> ArrayOf(<<[userid |-> <<"1001">>, username |-> <<"Al">>],
                       [name |-> <<"NoId">>],
                       [enrollid |-> <<"1002">>],
                       [id |-> <<"1002">>, card |-> <<"c1">>]>>)]

SendUserNull ==
  [cmd |-> SENDUSER,
   users |-> ArrayOf(<<[id |-> <<"1003">>], Primitive(Null)>>)]

SendUserBodies ==
  {SendUserNoPayload, SendUserSingle, SendUserBatch, SendUserNull}

NoCmd == [other |-> <<"1">>]

EmptyCmd == [cmd |-> <<>>, SN |-> <<"A">>]

Bogus == [cmd |-> <<" ", "B", "o", "g", "u", "s">>, SN |-> <<"A">>]

OtherBodies == {NoCmd, EmptyCmd, Bogus}

AsObject(b) == [isObject |-> TRUE, body |-> b]

\* req.body when the HTTP layer parsed no JSON object.
NotAnObject == [isObject |-> FALSE, body |-> NoCmd]

\* What the HTTP layer hands to routeCommand as req.body.
Requests ==
  { AsObject(b) :
      b \in RegBodies \cup CheckLiveBodies \cup SendLogBodies
             \cup SendUserBodies \cup OtherBodies }
  \cup {NotAnObject}

(* ------------------------------------------------------------------ *)
(* State                                                              *)
(* ------------------------------------------------------------------ *)

VARIABLES
  files,   \* the collection files: devices.json, logs.json, users.json
  tmp,     \* the <file>.tmp of each collection
  slots,   \* the requests in flight, each with its position in the code
  nreq     \* requests delivered so far

vars == <<files, tmp, slots, nreq>>

\* getCloudTime().iso: the clock reads the number of requests delivered.
Now == nreq

Slots == 1..MaxSlots

Collections == {"devices", "logs", "users"}

\* A path with no file.
NoFile == [exists |-> FALSE, content |-> <<>>]

FileOf(content) == [exists |-> TRUE, content |-> content]

EmptyFiles == [c \in Collections |-> <<>>]

NoRequest == [isObject |-> FALSE, body |-> [idle |-> Null]]

NoReply == [status |-> 0, body |-> [pending |-> TRUE]]

IdleSlot ==
  [pc |-> "idle", request |-> NoRequest, cmd |-> <<>>, handler |-> "none",
   coll |-> "none", loaded |-> <<>>, data |-> <<>>, stored |-> <<>>,
   iso |-> 0, readFailed |-> FALSE, saveFailed |-> FALSE,
   reply |-> NoReply, pre |-> EmptyFiles]

(* ------------------------------------------------------------------ *)
(* Utilities                                                          *)
(* ------------------------------------------------------------------ *)

\* requireFields(obj, fields): the fields not in obj.  `f in obj` throws a
\* TypeError when obj is not an object.
RequireFields(obj, fields) ==
  SelectSeq(fields, LAMBDA f : f \notin DOMAIN obj)

RequireFieldsThrows(obj) == IsPrimitive(obj)

(* ------------------------------------------------------------------ *)
(* handleReg                                                          *)
(* ------------------------------------------------------------------ *)

RegMissing(reqBody) == RequireFields(reqBody, <<"SN">>)


\* RegRecord reading the serial number under the wrong key (sn for SN).
RegRecordWrongKey(reqBody, t) ==
  [SN |-> Get(reqBody, "sn"),
   model |-> Or(Or(Get(reqBody, "Model"), Get(reqBody, "model")), Null),
   capacities |->
     Or(Or(Get(reqBody, "Capacities"), Get(reqBody, "capacities")), Null),
   ip |-> Or(Or(Get(reqBody, "ip"), Get(reqBody, "IP")), Null),
   raw |-> reqBody,
   registeredAt |-> t]

RegRecord(reqBody, t) ==
  [SN |-> reqBody.SN,
   model |-> Or(Or(Get(reqBody, "Model"), Get(reqBody, "model")), Null),
   capacities |->
     Or(Or(Get(reqBody, "Capacities"), Get(reqBody, "capacities")), Null),
   ip |-> Or(Or(Get(reqBody, "ip"), Get(reqBody, "IP")), Null),
   raw |-> reqBody,
   registeredAt |-> t]


\* RegDevices without the lookup: the record is always pushed.
RegDevicesPush(devices, reqBody, t) == Append(devices, RegRecord(reqBody, t))

\* The devices array handleReg saves: the record merged into the one with
\* the same SN, or pushed.
RegDevices(devices, reqBody, t) ==
  LET existingIndex == FindIndexBySN(devices, reqBody.SN)
      record == RegRecord(reqBody, t)
  IN  IF existingIndex >= 1
      THEN [devices EXCEPT
              ![existingIndex] = Spread(devices[existingIndex], record)]
      ELSE Append(devices, record)

RegReply(t) ==
  [status |-> 200,
   body |-> [ret |-> REG, result |-> TRUE, cloudtime |-> t,
             nosenduser |-> TRUE,
             message |-> <<"Device registered successfully">>]]

(* ------------------------------------------------------------------ *)
(* handleSendLog                                                      *)
(* ------------------------------------------------------------------ *)

LogsContainer(reqBody) ==
  OrContainer(
    OrContainer(
      OrContainer(GetContainer(reqBody, "logs"), GetContainer(reqBody, "log")),
      GetContainer(reqBody, "data")),
    NullContainer)

LogTemperature(l) ==
  Coalesce(Coalesce(Get(l, "temp"), Get(l, "temperature")), Null)

\* 1 = allow, 0 = deny
Access(temperature) ==
  IF /\ temperature # Null
     /\ ~IsNaN(ParseFloat(temperature))
     /\ GeFever(ParseFloat(temperature))
  THEN 0
  ELSE 1

LogEntry(l, reqBody, t) ==
  [enrollid |-> StringOf(l.enrollid),
   timestamp |-> l.timestamp,
   verifyMode |->
     Coalesce(Coalesce(Get(l, "verifyMode"), Get(l, "verify_mode")), Null),
   temperature |-> LogTemperature(l),
   image |-> Coalesce(Get(l, "image"), Null),
   deviceSN |-> Or(Get(reqBody, "SN"), Null),
   serverReceivedAt |-> t,
   access |-> Access(LogTemperature(l)),
   raw |-> l]

\* Whether the loop over logsArray throws (requireFields on a non-object).
LogLoopThrows(logsArray) ==
  \E i \in 1..Len(logsArray) : RequireFieldsThrows(logsArray[i])

LogAccepted(l) == RequireFields(l, <<"enrollid", "timestamp">>) = <<>>

\* storedEntries after the loop: one entry per element that has both
\* fields, in order.
RECURSIVE StoredEntries(_, _, _)
StoredEntries(logsArray, reqBody, t) ==
  IF logsArray = <<>> THEN <<>>
  ELSE LET l == Head(logsArray)
           rest == StoredEntries(Tail(logsArray), reqBody, t)
       IN  IF LogAccepted(l) THEN <<LogEntry(l, reqBody, t)>> \o rest
           ELSE rest

CountAccess(entries, a) ==
  Cardinality({i \in 1..Len(entries) : entries[i].access = a})

SendLogReply(storedEntries, t) ==
  LET allowedCount == CountAccess(storedEntries, 1)
      deniedCount == Len(storedEntries) - allowedCount
  IN  [status |-> 200,
       body |-> [ret |-> SENDLOG, result |-> TRUE, cloudtime |-> t,
                 log_count |-> Len(storedEntries),
                 allowed |-> allowedCount, denied |-> deniedCount,
                 message |-> <<"Logs received">>]]

(* ------------------------------------------------------------------ *)
(* handleCheckLive                                                    *)
(* ------------------------------------------------------------------ *)

CheckLiveIndex(devices, reqBody) ==
  IF Falsy(Get(reqBody, "SN")) THEN 0
  ELSE FindIndexBySN(devices, reqBody.SN)


\* CheckLiveDevices pushing the heartbeat as a record of its own.
CheckLiveDevicesPush(devices, idx, reqBody, iso) ==
  Append(devices, [SN |-> reqBody.SN, lastSeen |-> iso, rawLast |-> reqBody])

\* CheckLiveDevices stamping registeredAt as well.
CheckLiveDevicesRestamp(devices, idx, reqBody, iso) ==
  [devices EXCEPT
     ![idx] = Spread(devices[idx],
                [lastSeen |-> iso, rawLast |-> reqBody, registeredAt |-> iso])]

\* devices after lastSeen and rawLast of devices[idx] are set.
CheckLiveDevices(devices, idx, reqBody, iso) ==
  [devices EXCEPT
     ![idx] = Spread(devices[idx], [lastSeen |-> iso, rawLast |-> reqBody])]

CheckLiveReply(iso) ==
  [status |-> 200,
   body |-> [ret |-> CHECKLIVE, result |-> TRUE, cloudtime |-> iso,
             message |-> <<"alive">>]]

(* ------------------------------------------------------------------ *)
(* handleSendUser                                                     *)
(* ------------------------------------------------------------------ *)

UserContainer(reqBody) ==
  OrContainer(
    OrContainer(GetContainer(reqBody, "user"), GetContainer(reqBody, "users")),
    NullContainer)

\* u.f: undefined on a number or a string, a TypeError on null.
UserGet(u, f) == IF IsPrimitive(u) THEN Undefined ELSE Get(u, f)

UserThrows(u) == IsPrimitive(u) /\ Nullish(u.primitive)

UserLoopThrows(newUsers) ==
  \E i \in 1..Len(newUsers) : UserThrows(newUsers[i])

UserSkipped(u) ==
  Falsy(UserGet(u, "id")) /\ Falsy(UserGet(u, "userid"))
    /\ Falsy(UserGet(u, "enrollid"))

UserId(u) ==
  Coalesce(Coalesce(UserGet(u, "id"), UserGet(u, "userid")),
           UserGet(u, "enrollid"))

UserRecord(u, reqBody, t) ==
  [id |-> StringOf(UserId(u)),
   name |-> Coalesce(Coalesce(UserGet(u, "name"), UserGet(u, "username")), Null),
   password |-> Coalesce(UserGet(u, "password"), Null),
   card |-> Coalesce(UserGet(u, "card"), Null),
   fingerprint |-> Coalesce(UserGet(u, "fingerprint"), Null),
   deviceSN |-> Or(Get(reqBody, "SN"), Null),
   createdAt |-> t,
   raw |-> u]

\* One pass of the loop body on usersFile.
UserMerge(usersFile, u, reqBody, t) ==
  LET uid == UserId(u)
      existingIdx == FindIndexById(usersFile, uid)
      record == UserRecord(u, reqBody, t)
  IN  IF existingIdx >= 1
      THEN [usersFile EXCEPT
              ![existingIdx] =
                 Spread(Spread(usersFile[existingIdx], record),
                        [updatedAt |-> t])]
      ELSE Append(usersFile, record)

\* usersFile after the loop over newUsers.
RECURSIVE UsersAfter(_, _, _, _)
UsersAfter(usersFile, newUsers, reqBody, t) ==
  IF newUsers = <<>> THEN usersFile
  ELSE LET u == Head(newUsers)
       IN  IF UserSkipped(u)
           THEN UsersAfter(usersFile, Tail(newUsers), reqBody, t)
           ELSE CHOOSE after \in
                  {UsersAfter(merged, Tail(newUsers), reqBody, t) :
                     merged \in {UserMerge(usersFile, u, reqBody, t)}} : TRUE

\* added after the loop.
RECURSIVE UsersAdded(_, _, _)
UsersAdded(newUsers, reqBody, t) ==
  IF newUsers = <<>> THEN <<>>
  ELSE LET u == Head(newUsers)
           rest == UsersAdded(Tail(newUsers), reqBody, t)
       IN  IF UserSkipped(u) THEN rest
           ELSE <<UserRecord(u, reqBody, t)>> \o rest

SendUserReply(added, t) ==
  [status |-> 200,
   body |-> [ret |-> SENDUSER, result |-> TRUE, cloudtime |-> t,
             added |-> Len(added),
             message |-> <<"Users processed successfully">>]]

(* ------------------------------------------------------------------ *)
(* routeCommand                                                       *)
(* ------------------------------------------------------------------ *)

RECURSIVE Join(_, _)
\* parts.join(sep)
Join(parts, sep) ==
  IF parts = <<>> THEN <<>>
  ELSE IF Len(parts) = 1 THEN <<parts[1]>>
  ELSE <<parts[1], sep>> \o Join(Tail(parts), sep)


\* NormalizeCmd without toLowerCase.
NormalizeCmdNoLower(cmd) == Trim(StringOf(cmd))

\* String(cmd).trim().toLowerCase()
NormalizeCmd(cmd) == ToLowerCase(Trim(StringOf(cmd)))

RouterError(ret, t, error) ==
  [status |-> 400,
   body |-> [ret |-> ret, result |-> FALSE, cloudtime |-> t, error |-> error]]

InternalError(t) ==
  [status |-> 500,
   body |-> [ret |-> Null, result |-> FALSE, cloudtime |-> t,
             error |-> <<"Internal server error">>]]

HandlerError(error) == [status |-> 400, body |-> [error |-> error]]

\* The request answered: res.status(...).send/json(...).
Answered(slot, reply) == [slot EXCEPT !.pc = "done", !.reply = reply]

\* The handler suspended in `await readJsonSafe(file, [])`.
Reading(slot, handler, coll) ==
  [slot EXCEPT !.pc = "read", !.handler = handler, !.coll = coll]

\* A handler returned { status: 400, body } before loading anything.
Refused(slot, handler, error) ==
  Answered([slot EXCEPT !.handler = handler], HandlerError(error))

\* routeCommand from its entry to the first await (or to its response).
RouteStart(slot, t) ==
  LET q == slot.request
      body == q.body
      cmd == Get(body, "cmd")
      cmdStr == NormalizeCmd(cmd)
      routed == [slot EXCEPT !.cmd = cmdStr]
  IN  IF ~q.isObject
      THEN Answered(slot,
             RouterError(Null, t, <<"Invalid or missing JSON body">>))
      ELSE IF Falsy(cmd)
      THEN Answered(slot, RouterError(Null, t, <<"Missing 'cmd' property">>))
      ELSE IF cmdStr = REG
      THEN IF RegMissing(body) # <<>>
           THEN Refused(routed, "handleReg",
                  <<"Missing required fields: ">>
                    \o Join(RegMissing(body), ", "))
           ELSE Reading(routed, "handleReg", "devices")
      ELSE IF cmdStr = SENDLOG
      THEN IF ContainerFalsy(LogsContainer(body))
           THEN Refused(routed, "handleSendLog",
                  <<"Missing logs array (logs)">>)
           ELSE IF Len(ToArray(LogsContainer(body))) = 0
           THEN Refused(routed, "handleSendLog", <<"No log entries provided">>)
           ELSE Reading(routed, "handleSendLog", "logs")
      ELSE IF cmdStr = CHECKLIVE
      THEN Reading([routed EXCEPT !.iso = t], "handleCheckLive", "devices")
      ELSE IF cmdStr = SENDUSER
      THEN IF ContainerFalsy(UserContainer(body))
           THEN Refused(routed, "handleSendUser",
                  <<"Missing user payload (user/users)">>)
           ELSE Reading(routed, "handleSendUser", "users")
      ELSE Answered(routed,
             RouterError(cmdStr, t, <<"Unknown cmd: ">> \o cmdStr))

\* Thrown with every handler catching the exception and answering success.
ThrownSwallowed(slot, t) ==
  Answered(slot,
    [status |-> 200,
     body |-> [ret |-> slot.cmd, result |-> TRUE, cloudtime |-> t]])

\* Thrown with no catch around the handler: the rejection is unhandled and
\* no response is sent.
ThrownUnhandled(slot, t) == [slot EXCEPT !.pc = "unhandled"]

\* An exception in a handler: handleCheckLive catches its own (its whole
\* update is inside try) and answers as usual; every other handler lets it
\* reach routeCommand's catch.
Thrown(slot, t) ==
  IF slot.handler = "handleCheckLive"
  THEN Answered(slot, CheckLiveReply(slot.iso))
  ELSE Answered(slot, InternalError(t))

\* The handler suspended in writeJsonSafe, about to write `data` to the tmp.
Saving(slot, data, stored) ==
  [slot EXCEPT !.pc = "writeTmp", !.data = data, !.stored = stored]

\* The handler from readJsonSafe's result to its next await or its return.
AfterRead(slot0, loaded, t) ==
  LET slot == [slot0 EXCEPT !.loaded = loaded]
      reqBody == slot.request.body
  IN  IF slot.handler = "handleReg"
      THEN Saving(slot, RegDevices(loaded, reqBody, t), <<>>)
      ELSE IF slot.handler = "handleSendLog"
      THEN LET logsArray == ToArray(LogsContainer(reqBody))
           IN  IF LogLoopThrows(logsArray) THEN Thrown(slot, t)
               ELSE LET storedEntries == StoredEntries(logsArray, reqBody, t)
                    IN  Saving(slot, loaded \o storedEntries, storedEntries)
      ELSE IF slot.handler = "handleCheckLive"
      THEN LET idx == CheckLiveIndex(loaded, reqBody)
           IN  IF idx >= 1
               THEN Saving(slot,
                      CheckLiveDevices(loaded, idx, reqBody, slot.iso), <<>>)
               ELSE Answered(slot, CheckLiveReply(slot.iso))
      ELSE LET newUsers == ToArray(UserContainer(reqBody))
           IN  IF UserLoopThrows(newUsers) THEN Thrown(slot, t)
               ELSE Saving(slot, UsersAfter(loaded, newUsers, reqBody, t),
                           UsersAdded(newUsers, reqBody, t))

\* Saved with the handler returning status 400 after its save.
SavedAsBadRequest(slot, t) ==
  Answered(slot, HandlerError(<<"Bad request">>))

\* The handler's return after writeJsonSafe resolved.
Saved(slot, t) ==
  IF slot.handler = "handleReg" THEN Answered(slot, RegReply(t))
  ELSE IF slot.handler = "handleSendLog"
  THEN Answered(slot, SendLogReply(slot.stored, t))
  ELSE IF slot.handler = "handleCheckLive"
  THEN Answered(slot, CheckLiveReply(slot.iso))
  ELSE Answered(slot, SendUserReply(slot.stored, t))

(* ------------------------------------------------------------------ *)
(* Actions                                                            *)
(* ------------------------------------------------------------------ *)

InFlight(r) == slots[r].pc # "idle"

\* ensureDataFiles has seeded the three collections with [].
Init ==
  /\ files = EmptyFiles
  /\ tmp = [c \in Collections |-> NoFile]
  /\ slots = [r \in Slots |-> IdleSlot]
  /\ nreq = 0

\* POST /api delivers request q to routeCommand (in the first free slot).
Start(r, q) ==
  /\ slots[r].pc = "idle"
  /\ \A r2 \in 1..(r - 1) : InFlight(r2)
  /\ nreq < MaxRequests
  /\ nreq' = nreq + 1
  /\ slots' = [slots EXCEPT
        ![r] = RouteStart([IdleSlot EXCEPT !.request = q, !.pre = files], nreq + 1)]
  /\ UNCHANGED <<files, tmp>>

\* As Start, when no other request is being served.
StartAlone(q) ==
  /\ \A r \in Slots : ~InFlight(r)
  /\ Start(1, q)

\* readJsonSafe returns the parsed file.
Read(r) ==
  /\ slots[r].pc = "read"
  /\ slots' = [slots EXCEPT
        ![r] = AfterRead(slots[r], files[slots[r].coll], Now)]
  /\ UNCHANGED <<files, tmp, nreq>>

\* readJsonSafe fails (readFile or JSON.parse throws, or the file is empty)
\* and returns defaultValue, [].
ReadFail(r) ==
  /\ slots[r].pc = "read"
  /\ slots' = [slots EXCEPT
        ![r] = AfterRead([slots[r] EXCEPT !.readFailed = TRUE], <<>>, Now)]
  /\ UNCHANGED <<files, tmp, nreq>>

\* writeJsonSafe: fs.writeFile(tmp, JSON.stringify(obj)).
WriteTmp(r) ==
  /\ slots[r].pc = "writeTmp"
  /\ tmp' = [tmp EXCEPT ![slots[r].coll] = FileOf(slots[r].data)]
  /\ slots' = [slots EXCEPT ![r].pc = "rename"]
  /\ UNCHANGED <<files, nreq>>

\* fs.writeFile rejects.
WriteTmpFail(r) ==
  /\ slots[r].pc = "writeTmp"
  /\ slots' = [slots EXCEPT
        ![r] = Thrown([slots[r] EXCEPT !.saveFailed = TRUE], Now)]
  /\ UNCHANGED <<files, tmp, nreq>>

\* Rename with the tmp renamed onto logs.json whatever the collection.
RenameToLogs(r) ==
  /\ slots[r].pc = "rename"
  /\ tmp[slots[r].coll].exists
  /\ files' = [files EXCEPT !["logs"] = tmp[slots[r].coll].content]
  /\ tmp' = [tmp EXCEPT ![slots[r].coll] = NoFile]
  /\ slots' = [slots EXCEPT ![r] = Saved(slots[r], Now)]
  /\ UNCHANGED nreq

\* writeJsonSafe: fs.rename(tmp, filePath), then the handler returns.
Rename(r) ==
  /\ slots[r].pc = "rename"
  /\ tmp[slots[r].coll].exists
  /\ files' = [files EXCEPT ![slots[r].coll] = tmp[slots[r].coll].content]
  /\ tmp' = [tmp EXCEPT ![slots[r].coll] = NoFile]
  /\ slots' = [slots EXCEPT ![r] = Saved(slots[r], Now)]
  /\ UNCHANGED nreq

\* fs.rename rejects with ENOENT: another request renamed the tmp away.
RenameMissing(r) ==
  /\ slots[r].pc = "rename"
  /\ ~tmp[slots[r].coll].exists
  /\ slots' = [slots EXCEPT
        ![r] = Thrown([slots[r] EXCEPT !.saveFailed = TRUE], Now)]
  /\ UNCHANGED <<files, tmp, nreq>>

\* fs.rename rejects on an I/O error.
RenameFail(r) ==
  /\ slots[r].pc = "rename"
  /\ tmp[slots[r].coll].exists
  /\ slots' = [slots EXCEPT
        ![r] = Thrown([slots[r] EXCEPT !.saveFailed = TRUE], Now)]
  /\ UNCHANGED <<files, tmp, nreq>>

\* The response has been sent; the request is over.
Finish(r) ==
  /\ slots[r].pc = "done"
  /\ slots' = [slots EXCEPT ![r] = IdleSlot]
  /\ UNCHANGED <<files, tmp, nreq>>

\* Requests overlap: a request is delivered while others are suspended in
\* a file operation.  No file operation fails but the rename of a tmp that
\* another request has renamed away.
Next ==
  \/ \E r \in Slots, q \in Requests : Start(r, q)
  \/ \E r \in Slots : Read(r)
  \/ \E r \in Slots : WriteTmp(r)
  \/ \E r \in Slots : Rename(r)
  \/ \E r \in Slots : RenameMissing(r)
  \/ \E r \in Slots : Finish(r)

Spec == Init /\ [][Next]_vars

\* One request at a time; file operations may fail.
NextSeq ==
  \/ \E q \in Requests : StartAlone(q)
  \/ \E r \in Slots : Read(r)
  \/ \E r \in Slots : ReadFail(r)
  \/ \E r \in Slots : WriteTmp(r)
  \/ \E r \in Slots : WriteTmpFail(r)
  \/ \E r \in Slots : Rename(r)
  \/ \E r \in Slots : RenameFail(r)
  \/ \E r \in Slots : Finish(r)

SpecSeq == Init /\ [][NextSeq]_vars

\* As StartAlone, for the first MaxLiveRequests requests.
StartLive(q) ==
  /\ nreq < MaxLiveRequests
  /\ StartAlone(q)

\* NextSeq with MaxLiveRequests requests.
NextLive ==
  \/ \E q \in Requests : StartLive(q)
  \/ \E r \in Slots : Read(r)
  \/ \E r \in Slots : ReadFail(r)
  \/ \E r \in Slots : WriteTmp(r)
  \/ \E r \in Slots : WriteTmpFail(r)
  \/ \E r \in Slots : Rename(r)
  \/ \E r \in Slots : RenameFail(r)
  \/ \E r \in Slots : Finish(r)

\* Node runs every file operation a handler awaits to completion: the
\* promise of readFile, writeFile and rename settles, resolved or rejected.
FileOperationsSettle ==
  /\ WF_vars(\E r \in Slots : Read(r) \/ ReadFail(r))
  /\ WF_vars(\E r \in Slots : WriteTmp(r) \/ WriteTmpFail(r))
  /\ WF_vars(\E r \in Slots : Rename(r) \/ RenameFail(r))

\* One request at a time; file operations may fail, and each one settles.
SpecLive == Init /\ [][NextLive]_vars /\ FileOperationsSettle

\* One request at a time; every file operation succeeds.
NextOk ==
  \/ \E q \in Requests : StartAlone(q)
  \/ \E r \in Slots : Read(r)
  \/ \E r \in Slots : WriteTmp(r)
  \/ \E r \in Slots : Rename(r)
  \/ \E r \in Slots : Finish(r)

SpecOk == Init /\ [][NextOk]_vars

(* ------------------------------------------------------------------ *)
(* Properties.  A request that has been answered stays in its slot    *)
(* (pc = "done") until Finish; `pre` holds the collections as they    *)
(* were when it was delivered.                                        *)
(* ------------------------------------------------------------------ *)

Answer(r) == slots[r].reply

Body(r) == slots[r].request.body

AnsweredBy(r, handler) ==
  slots[r].pc = "done" /\ slots[r].handler = handler

SNsOf(devices) == {devices[i].SN : i \in 1..Len(devices)}

IsPrefix(a, b) == Len(a) <= Len(b) /\ SubSeq(b, 1, Len(a)) = a

\* The last n elements of seq.
LastN(seq, n) == SubSeq(seq, Len(seq) - n + 1, Len(seq))

\* The record field f after a re-registration whose payload names it f1 or
\* f2: the payload's value when the payload has one, the old value otherwise.
MergedField(old, new, payload, f, f1, f2) ==
  IF f1 \in DOMAIN payload THEN new[f] = payload[f1]
  ELSE IF f2 \in DOMAIN payload THEN new[f] = payload[f2]
  ELSE new[f] = old[f]

\* A field the payload never carries is as it was (absent stays absent).
KeptField(old, new, f) ==
  /\ (f \in DOMAIN old) = (f \in DOMAIN new)
  /\ f \in DOMAIN old => new[f] = old[f]

\* A reg request answered 200 whose SN had a record when it was delivered.
ReRegistered(r) ==
  /\ AnsweredBy(r, "handleReg")
  /\ Answer(r).status = 200
  /\ Body(r).SN \in SNsOf(slots[r].pre.devices)

\* C1: re-registering a serial number that already has a record does not
\* lengthen the devices collection, and in the resulting record every field
\* the new payload carries has the new value while every field it does not
\* carry (model, capacities, ip, lastSeen, rawLast) keeps its old value.
C1_ReRegMergePreservesAbsent ==
  \A r \in Slots :
    ReRegistered(r) =>
      LET before == slots[r].pre.devices
          idx == FindIndexBySN(before, Body(r).SN)
          old == before[idx]
          new == files.devices[idx]
      IN  /\ Len(files.devices) <= Len(before)
          /\ new.SN = Body(r).SN
          /\ new.raw = Body(r)
          /\ MergedField(old, new, Body(r), "model", "Model", "model")
          /\ MergedField(old, new, Body(r), "capacities", "Capacities",
                         "capacities")
          /\ MergedField(old, new, Body(r), "ip", "ip", "IP")
          /\ KeptField(old, new, "lastSeen")
          /\ KeptField(old, new, "rawLast")

\* C2: the devices collection never holds two records with the same SN,
\* whatever reg and checklive requests were served and however they
\* overlapped.
C2_OneRecordPerSN ==
  \A i, j \in 1..Len(files.devices) :
    i # j => files.devices[i].SN # files.devices[j].SN

\* Two reg requests for one serial number, both loaded before either saved,
\* both answered 200.
C2_Witness ==
  \E r1, r2 \in Slots :
    /\ r1 # r2
    /\ AnsweredBy(r1, "handleReg") /\ AnsweredBy(r2, "handleReg")
    /\ Answer(r1).status = 200 /\ Answer(r2).status = 200
    /\ Body(r1).SN = Body(r2).SN
    /\ slots[r1].loaded = <<>> /\ slots[r2].loaded = <<>>
    /\ Len(files.devices) = 1

\* A reg request that carries an SN with no record when it was delivered.
FreshReg(r) ==
  /\ AnsweredBy(r, "handleReg")
  /\ "SN" \in DOMAIN Body(r)
  /\ Body(r).SN \notin SNsOf(slots[r].pre.devices)

\* C3: a reg request with an SN not yet in the devices collection adds
\* exactly one record, whose SN is the request's, leaves every stored record
\* as it was, and is answered 200 with ret "reg", result true and
\* nosenduser true.
C3_FreshRegAppendsOne ==
  \A r \in Slots :
    FreshReg(r) =>
      LET before == slots[r].pre.devices
      IN  /\ Len(files.devices) = Len(before) + 1
          /\ files.devices[Len(files.devices)].SN = Body(r).SN
          /\ IsPrefix(before, files.devices)
          /\ Answer(r).status = 200
          /\ Answer(r).body.ret = REG
          /\ Answer(r).body.result = TRUE
          /\ Answer(r).body.nosenduser = TRUE

\* A fresh registration served when the collection already held a record.
C3_Witness ==
  \E r \in Slots : FreshReg(r) /\ Len(slots[r].pre.devices) >= 1

\* An entry that carries both enrollid and timestamp (an entry that is not
\* an object carries neither).
CarriesBoth(l) ==
  ~IsPrimitive(l) /\ {"enrollid", "timestamp"} \subseteq DOMAIN l

\* The entries of a batch that carry both fields, in batch order.
WellFormed(batch) == SelectSeq(batch, CarriesBoth)

\* A sendlog request with a non-empty batch that has been answered.
SendLogServed(r) ==
  /\ AnsweredBy(r, "handleSendLog")
  /\ ~ContainerFalsy(LogsContainer(Body(r)))
  /\ ToArray(LogsContainer(Body(r))) # <<>>

\* C4: a sendlog request with a non-empty batch appends exactly the entries
\* that carry both enrollid and timestamp, in batch order, and is answered
\* 200 with log_count their number; any other entry, whatever JSON value
\* it is, is left out without failing the request.
C4_SendLogAppendsWellFormed ==
  \A r \in Slots :
    SendLogServed(r) =>
      LET batch == ToArray(LogsContainer(Body(r)))
          good == WellFormed(batch)
          before == slots[r].pre.logs
      IN  /\ Answer(r).status = 200
          /\ Answer(r).body.log_count = Len(good)
          /\ Len(files.logs) = Len(before) + Len(good)
          /\ IsPrefix(before, files.logs)
          /\ \A k \in 1..Len(good) : files.logs[Len(before) + k].raw = good[k]

\* The temperature field of an entry: temp, else temperature; null when
\* neither holds a value.
ClaimedTemperature(l) ==
  IF "temp" \in DOMAIN l /\ l.temp # Null THEN l.temp
  ELSE IF "temperature" \in DOMAIN l THEN l.temperature
  ELSE Null

\* Present, numeric and >= 38.0.
ClaimedDenied(l) ==
  LET v == ClaimedTemperature(l)
      x == ParseFloat(v)
  IN  v # Null /\ ~x.nan /\ ~x.neg /\ x.int >= FeverThreshold

\* C5: every stored entry of a sendlog request has access 0 exactly when
\* its temperature (temp, else temperature) is present, numeric and
\* >= 38.0, and access 1 otherwise; the reply's denied and allowed count the
\* request's stored entries with access 0 and 1.
C5_AccessFollowsTemperature ==
  \A r \in Slots :
    (AnsweredBy(r, "handleSendLog") /\ Answer(r).status = 200) =>
      LET stored == LastN(files.logs, Answer(r).body.log_count)
      IN  /\ Answer(r).body.log_count <= Len(files.logs)
          /\ \A k \in 1..Len(stored) :
               stored[k].access = IF ClaimedDenied(stored[k].raw) THEN 0 ELSE 1
          /\ Answer(r).body.denied = CountAccess(stored, 0)
          /\ Answer(r).body.allowed = CountAccess(stored, 1)

\* A batch answered with entries denied and entries allowed.
C5_Witness ==
  \E r \in Slots :
    /\ AnsweredBy(r, "handleSendLog")
    /\ Answer(r).status = 200
    /\ Answer(r).body.denied >= 1
    /\ Answer(r).body.allowed >= 1

\* C6: a checklive request is answered 200 with ret "checklive" and result
\* true, with or without an SN and whether or not the SN has a record, and
\* the devices collection is as long after it as before.
C6_CheckLiveAlwaysOk ==
  \A r \in Slots :
    AnsweredBy(r, "handleCheckLive") =>
      /\ Answer(r).status = 200
      /\ Answer(r).body.ret = CHECKLIVE
      /\ Answer(r).body.result = TRUE
      /\ Len(files.devices) = Len(slots[r].pre.devices)

\* A heartbeat from a serial number that has no record, while another has.
C6_Witness ==
  \E r \in Slots :
    /\ AnsweredBy(r, "handleCheckLive")
    /\ "SN" \in DOMAIN Body(r)
    /\ Body(r).SN \notin SNsOf(slots[r].pre.devices)
    /\ Len(slots[r].pre.devices) >= 1

\* C7: every response of POST /api carries ret, a boolean result and
\* cloudtime.
C7_ResponseEnvelope ==
  \A r \in Slots :
    slots[r].pc = "done" =>
      /\ {"ret", "result", "cloudtime"} \subseteq DOMAIN Answer(r).body
      /\ Answer(r).body.result \in BOOLEAN

IsInternalError(reply) ==
  /\ reply.status = 500
  /\ reply.body.ret = Null
  /\ reply.body.result = FALSE
  /\ reply.body.error = <<"Internal server error">>

\* C8 as stated: whichever handler was saving (reg, sendlog, checklive on a
\* known device, senduser), a failed save is answered 500 with ret null,
\* result false and error "Internal server error".
C8_SaveFailureIs500 ==
  \A r \in Slots :
    (slots[r].pc = "done" /\ slots[r].saveFailed) =>
      IsInternalError(Answer(r))

\* C8 amended: a failed save of reg, sendlog or senduser is answered 500
\* with ret null, result false and error "Internal server error"; a failed
\* save of checklive is caught by the handler and answered 200 with ret
\* "checklive" and result true.
C8_SaveFailureIs500ButCheckLive ==
  \A r \in Slots :
    (slots[r].pc = "done" /\ slots[r].saveFailed) =>
      IF slots[r].handler = "handleCheckLive"
      THEN /\ Answer(r).status = 200
           /\ Answer(r).body.ret = CHECKLIVE
           /\ Answer(r).body.result = TRUE
      ELSE IsInternalError(Answer(r))

\* A sendlog request whose save failed.
C8_Witness ==
  \E r \in Slots :
    /\ AnsweredBy(r, "handleSendLog")
    /\ slots[r].saveFailed
    /\ slots[r].stored # <<>>

\* A request whose body is no object or has no cmd (none, or an empty one).
HasNoCmd(q) == ~q.isObject \/ Falsy(Get(q.body, "cmd"))

\* cmd trimmed and lower-cased.
ClaimedCmd(q) == ToLowerCase(Trim(q.body.cmd))

Delivered(r) == slots[r].pc # "idle"

\* C9: a request whose cmd, trimmed and lower-cased, is none of reg,
\* sendlog, checklive, senduser is answered 400 with ret that cmd, result
\* false and error "Unknown cmd: <cmd>"; a request whose body is no object
\* or has no cmd is answered 400 with ret null and result false; no handler
\* runs for either, and the collections stay as they were.
C9_UnknownCmdRefused ==
  \A r \in Slots :
    Delivered(r) =>
      LET q == slots[r].request
      IN  /\ HasNoCmd(q) =>
               /\ slots[r].pc = "done"
               /\ slots[r].handler = "none"
               /\ Answer(r).status = 400
               /\ Answer(r).body.ret = Null
               /\ Answer(r).body.result = FALSE
               /\ files = slots[r].pre
          /\ (~HasNoCmd(q) /\ ClaimedCmd(q) \notin Commands) =>
               /\ slots[r].pc = "done"
               /\ slots[r].handler = "none"
               /\ Answer(r).status = 400
               /\ Answer(r).body.ret = ClaimedCmd(q)
               /\ Answer(r).body.result = FALSE
               /\ Answer(r).body.error = <<"Unknown cmd: ">> \o ClaimedCmd(q)
               /\ files = slots[r].pre

\* An unknown cmd that needed trimming and lower-casing, refused while the
\* collections hold records.
C9_Witness ==
  \E r \in Slots :
    /\ slots[r].pc = "done"
    /\ Body(r) = Bogus
    /\ slots[r].request.isObject
    /\ files.devices # <<>>

\* C10: where requests do not overlap, and also where a read fails and is
\* recovered as an empty collection, the logs collection after a request
\* has the logs collection before it as a prefix.
C10_LogsAppendOnly ==
  \A r \in Slots :
    slots[r].pc = "done" => IsPrefix(slots[r].pre.logs, files.logs)

\* The identity key the specification gives an entry of a senduser batch:
\* id, else userid, else enrollid; Undefined when it carries none of them.
ClaimedIdentity(u) ==
  IF IsPrimitive(u) THEN Undefined
  ELSE IF "id" \in DOMAIN u THEN u.id
  ELSE IF "userid" \in DOMAIN u THEN u.userid
  ELSE IF "enrollid" \in DOMAIN u THEN u.enrollid
  ELSE Undefined

\* The identities of a batch, as strings.
BatchIds(batch) ==
  {StringOf(ClaimedIdentity(batch[i])) :
     i \in {j \in 1..Len(batch) : ClaimedIdentity(batch[j]) # Undefined}}

IdsOf(usersFile) == {StringOf(usersFile[i].id) : i \in 1..Len(usersFile)}

UniqueIds(usersFile) ==
  \A i, j \in 1..Len(usersFile) :
    StringOf(usersFile[i].id) = StringOf(usersFile[j].id) => i = j

\* A senduser request that carried a payload and has been answered.
SendUserServed(r) ==
  /\ AnsweredBy(r, "handleSendUser")
  /\ ~ContainerFalsy(UserContainer(Body(r)))

\* C11: starting from no users, the users collection never holds two
\* records with the same id (as strings); a senduser request with a payload
\* is answered 200 whatever its entries are: a stored record whose id is the
\* identity of an entry keeps its place and its id and gets an updatedAt,
\* every other stored record is left as it was, each new identity of the
\* batch appends exactly one record, and an entry without identity key
\* adds nothing.
C11_UsersUniqueMergeSkip ==
  /\ UniqueIds(files.users)
  /\ \A r \in Slots :
       SendUserServed(r) =>
         LET batch == ToArray(UserContainer(Body(r)))
             old == slots[r].pre.users
             new == files.users
         IN  /\ Answer(r).status = 200
             /\ Len(new) = Len(old) + Cardinality(BatchIds(batch) \ IdsOf(old))
             /\ IdsOf(new) = IdsOf(old) \cup BatchIds(batch)
             /\ \A i \in 1..Len(old) :
                  /\ new[i].id = old[i].id
                  /\ IF StringOf(old[i].id) \in BatchIds(batch)
                     THEN "updatedAt" \in DOMAIN new[i]
                     ELSE new[i] = old[i]

\* The collection the specification assigns to a handler.
OwnCollection(handler) ==
  IF handler \in {"handleReg", "handleCheckLive"} THEN "devices"
  ELSE IF handler = "handleSendLog" THEN "logs"
  ELSE "users"

\* C12: from its delivery to its answer, whatever the payload and the
\* outcome (200, 400 or 500, file operations failing or not), a request
\* served by a handler leaves every collection but the handler's own as it
\* was: reg and checklive leave logs and users, sendlog leaves devices and
\* users, senduser leaves devices and logs.
C12_HandlerTouchesOwnCollection ==
  \A r \in Slots :
    (Delivered(r) /\ slots[r].handler # "none") =>
      \A c \in Collections \ {OwnCollection(slots[r].handler)} :
        files[c] = slots[r].pre[c]

\* A reg request has changed devices while logs and users held records.
C12_Witness ==
  \E r \in Slots :
    /\ AnsweredBy(r, "handleReg")
    /\ Answer(r).status = 200
    /\ files.devices # slots[r].pre.devices
    /\ slots[r].pre.logs # <<>>
    /\ slots[r].pre.users # <<>>

\* Request r went as far as saving a collection it had changed.
BuiltChange(r) ==
  /\ slots[r].coll # "none"
  /\ Len(slots[r].data) >= Len(slots[r].loaded)
  /\ slots[r].data # slots[r].loaded

\* Two answered requests on one collection, each having loaded it before
\* the other saved: both built their change on the same loaded contents.
BothLoadedBeforeEitherSaved(r1, r2) ==
  /\ r1 # r2
  /\ slots[r1].pc = "done" /\ slots[r2].pc = "done"
  /\ slots[r1].coll = slots[r2].coll
  /\ BuiltChange(r1) /\ BuiltChange(r2)
  /\ slots[r1].loaded = slots[r2].loaded

\* C13: when two requests on the same collection both load it before either
\* saves, both are answered 200 and the collection holds what one of them
\* saved (the later write), not a merge of the two.
C13_LaterWriteWins ==
  \A r1, r2 \in Slots :
    BothLoadedBeforeEitherSaved(r1, r2) =>
      /\ Answer(r1).status = 200
      /\ Answer(r2).status = 200
      /\ files[slots[r1].coll] \in {slots[r1].data, slots[r2].data}

ElementsOf(seq) == {seq[i] : i \in 1..Len(seq)}

\* The records request r built: those of the collection it went to save
\* that were not in the collection it had loaded.
BuiltRecords(r) == ElementsOf(slots[r].data) \ ElementsOf(slots[r].loaded)

\* C16: whatever the interleaving of overlapping requests, once a request
\* is answered 500 none of the records it built is in the persisted
\* collection.
C16_FailedRequestLeavesNoRecord ==
  \A r \in Slots :
    (slots[r].pc = "done" /\ Answer(r).status = 500 /\ BuiltChange(r)) =>
      BuiltRecords(r) \cap ElementsOf(files[slots[r].coll]) = {}

\* C14: every request delivered to routeCommand is eventually answered,
\* file operations failing or not; it has no answer before, its answer has
\* status 200, 400 or 500, and once given the answer is never replaced
\* (the request only leaves).
C14_EveryRequestAnsweredOnce ==
  /\ \A r \in Slots : Delivered(r) ~> (slots[r].pc = "done")
  /\ [](\A r \in Slots :
          IF slots[r].pc = "done"
          THEN Answer(r).status \in {200, 400, 500}
          ELSE Answer(r) = NoReply)
  /\ [][\A r \in Slots :
          slots[r].pc = "done" => slots'[r] \in {slots[r], IdleSlot}]_vars

\* A request has been answered although its read and its save both failed.
C14_Witness ==
  \E r \in Slots :
    /\ slots[r].pc = "done"
    /\ slots[r].readFailed
    /\ slots[r].saveFailed
    /\ Answer(r).status = 500

\* C15: a request answered 400 (no JSON object as body, no cmd, unknown
\* cmd, reg without SN, sendlog without container or with an empty batch,
\* senduser without payload) leaves devices, logs and users exactly as
\* they were when it was delivered.
C15_BadRequestChangesNothing ==
  \A r \in Slots :
    (slots[r].pc = "done" /\ Answer(r).status = 400) =>
      \A c \in Collections : files[c] = slots[r].pre[c]

\* A sendlog request has been refused by its handler while logs and devices
\* held records.
C15_Witness ==
  \E r \in Slots :
    /\ AnsweredBy(r, "handleSendLog")
    /\ Answer(r).status = 400
    /\ slots[r].pre.logs # <<>>
    /\ slots[r].pre.devices # <<>>

HeartbeatFields == {"lastSeen", "rawLast"}

\* Record new is record old but for its lastSeen and rawLast.
OnlyHeartbeatChanged(old, new) ==
  /\ DOMAIN old \subseteq DOMAIN new
  /\ DOMAIN new \subseteq DOMAIN old \cup HeartbeatFields
  /\ \A f \in DOMAIN old \ HeartbeatFields : new[f] = old[f]

\* The SN of a checklive request is that of a device stored at delivery.
KnownSN(r) ==
  /\ "SN" \in DOMAIN Body(r)
  /\ Body(r).SN \in SNsOf(slots[r].pre.devices)

\* C17: from its delivery to its answer a checklive request changes at most
\* one device record, one whose SN is the request's, and of that record
\* only lastSeen and rawLast: SN, model, capacities, ip, raw and
\* registeredAt stay, no record is added or removed; when the SN is absent
\* or that of no stored device, the request never gets to write (neither
\* the tmp file nor devices.json).
C17_CheckLiveTouchesHeartbeatOnly ==
  \A r \in Slots :
    (Delivered(r) /\ slots[r].handler = "handleCheckLive") =>
      LET old == slots[r].pre.devices
          new == files.devices
      IN  /\ Len(new) = Len(old)
          /\ Cardinality({i \in 1..Len(old) : new[i] # old[i]}) <= 1
          /\ \A i \in 1..Len(old) :
               IF KnownSN(r) /\ old[i].SN = Body(r).SN
               THEN OnlyHeartbeatChanged(old[i], new[i])
               ELSE new[i] = old[i]
          /\ ~KnownSN(r) =>
               /\ slots[r].pc \in {"read", "done"}
               /\ slots[r].data = <<>>
               /\ new = old

\* A checklive request has stamped one of two stored devices.
C17_Witness ==
  \E r \in Slots :
    /\ AnsweredBy(r, "handleCheckLive")
    /\ KnownSN(r)
    /\ Len(slots[r].pre.devices) = 2
    /\ Len(files.devices) = 2
    /\ \E i \in 1..2 :
         /\ files.devices[i] # slots[r].pre.devices[i]
         /\ HeartbeatFields \subseteq DOMAIN files.devices[i]
         /\ files.devices[i].lastSeen = slots[r].iso
         /\ files.devices[i].rawLast = Body(r)

====
